---- MODULE Spec2Model ----
(***************************************************************************)
(* Model of grafo.py: class Grafo, a graph kept as adjacency maps.         *)
(*                                                                         *)
(* Python objects are modelled by references.  A vertex created by the     *)
(* graph is a positive integer (its allocation number), an edge likewise;  *)
(* 0 is None.  A vertex object that was not created by inserir_vertice of  *)
(* this graph is a negative integer.  The two attributes _saida and        *)
(* _entrada are references into a heap of dict objects, so that the        *)
(* aliasing of the undirected graph (_entrada is _saida) is literal.       *)
(***************************************************************************)
EXTENDS Integers, FiniteSets, Sequences, TLC

\* ---- bounds -----------------------------------------------------------
\* calls of inserir_vertice explored
MaxVertices == 2
\* calls of inserir_aresta explored
MaxArestas == 3

\* payloads handed to inserir_vertice (0 stands for the default None)
Elementos == {0}
\* payloads handed to inserir_aresta (0 stands for the default None)
Valores == {0, 1}
\* Vertice objects that do not come from inserir_vertice of this graph
Estranhos == {0 - 1}

None == 0

VARIABLES
    direcionado,   \* the argument given to Grafo(direcionado)
    mapas,         \* heap of dict objects: reference -> dict
    saida,         \* self._saida, a reference into mapas
    entrada,       \* self._entrada, a reference into mapas
    verts,         \* Vertice objects created so far: reference -> slots
    ars,           \* Aresta objects created so far: reference -> slots
    chamada        \* the last call made on the graph and how it ended

vars == <<direcionado, mapas, saida, entrada, verts, ars, chamada>>

\* ---- dicts ------------------------------------------------------------
DictVazio == [k \in {} |-> 0]

\* d[k] = val
DictSet(d, k, val) == [y \in (DOMAIN d) \cup {k} |-> IF y = k THEN val ELSE d[y]]

\* d.values() as a set
DictValues(d) == {d[k] : k \in DOMAIN d}

RECURSIVE Soma(_, _)
\* sum(f[k] for k in S)
Soma(f, S) ==
    IF S = {} THEN 0
    ELSE LET k == CHOOSE y \in S : TRUE IN f[k] + Soma(f, S \ {k})

\* ---- Vertice / Aresta -------------------------------------------------
Vertice(e) == [elemento |-> e, visitado |-> FALSE]

Aresta(origem, destino, peso) == [origem |-> origem, destino |-> destino, peso |-> peso]

\* Aresta.vertices
aresta_vertices(a) == <<ars[a].origem, ars[a].destino>>

\* Aresta.oposto
oposto(a, v) == IF v = ars[a].origem THEN ars[a].destino ELSE ars[a].origem

\* Aresta.peso
peso(a) == ars[a].peso

\* ---- queries ----------------------------------------------------------
\* mutation: compares the contents of the two maps, not their identity
e_direcionado_conteudo == mapas[entrada] # mapas[saida]

e_direcionado == entrada # saida

num_vertices == Cardinality(DOMAIN mapas[saida])

vertices == DOMAIN mapas[saida]

num_arestas ==
    LET total == Soma([v \in DOMAIN mapas[saida] |-> Cardinality(DOMAIN mapas[saida][v])],
                      DOMAIN mapas[saida])
    IN IF e_direcionado THEN total ELSE total \div 2

arestas == UNION {DictValues(mapas[saida][w]) : w \in DOMAIN mapas[saida]}

\* mutation: an unknown u is treated as a vertex without neighbours
aresta_KeyError_tolerante(u, v) == FALSE

\* aresta(u, v) raises KeyError
aresta_KeyError(u, v) == u \notin DOMAIN mapas[saida]

\* the value aresta(u, v) returns when it does not raise
aresta(u, v) ==
    IF v \in DOMAIN mapas[saida][u] THEN mapas[saida][u][v] ELSE None

\* adj = self._saida if saida else self._entrada
adj(s) == IF s THEN mapas[saida] ELSE mapas[entrada]

\* grau(v, saida) raises KeyError
grau_KeyError(v, s) == v \notin DOMAIN adj(s)

\* the value grau(v, saida) returns when it does not raise
grau(v, s) == Cardinality(DOMAIN adj(s)[v])

\* iterating arestas_incidentes(v, saida) raises KeyError
arestas_incidentes_KeyError(v, s) == v \notin DOMAIN adj(s)

\* the edges arestas_incidentes(v, saida) yields when it does not raise
arestas_incidentes(v, s) == DictValues(adj(s)[v])

\* ---- construction -----------------------------------------------------
Init ==
    /\ direcionado \in BOOLEAN
    /\ saida = 1
    /\ entrada = IF direcionado THEN 2 ELSE 1
    /\ mapas = IF direcionado THEN (1 :> DictVazio) @@ (2 :> DictVazio)
                              ELSE (1 :> DictVazio)
    /\ verts = DictVazio
    /\ ars = DictVazio
    /\ chamada = [op |-> "Grafo", u |-> None, v |-> None, x |-> 0,
                  ret |-> None, erro |-> FALSE]

\* ---- mutators ---------------------------------------------------------
\* mutation: the entry in the incoming map is not registered
inserir_vertice_sem_entrada(x) ==
    LET v == Cardinality(DOMAIN verts) + 1 IN
    /\ Cardinality(DOMAIN verts) < MaxVertices
    /\ verts' = DictSet(verts, v, Vertice(x))
    /\ mapas' = [mapas EXCEPT ![saida] = DictSet(mapas[saida], v, DictVazio)]
    /\ chamada' = [op |-> "inserir_vertice", u |-> None, v |-> None, x |-> x,
                   ret |-> v, erro |-> FALSE]
    /\ UNCHANGED <<direcionado, saida, entrada, ars>>

inserir_vertice(x) ==
    LET v == Cardinality(DOMAIN verts) + 1
        m1 == [mapas EXCEPT ![saida] = DictSet(mapas[saida], v, DictVazio)]
        m2 == IF e_direcionado
              THEN [m1 EXCEPT ![entrada] = DictSet(m1[entrada], v, DictVazio)]
              ELSE m1
    IN
    /\ Cardinality(DOMAIN verts) < MaxVertices
    /\ verts' = DictSet(verts, v, Vertice(x))
    /\ mapas' = m2
    /\ chamada' = [op |-> "inserir_vertice", u |-> None, v |-> None, x |-> x,
                   ret |-> v, erro |-> FALSE]
    /\ UNCHANGED <<direcionado, saida, entrada, ars>>

\* mutation: the edge is stored in the outgoing map only
escrever_aresta_so_saida(u, v, a) ==
    IF u \notin DOMAIN mapas[saida]
    THEN [mapas |-> mapas, erro |-> TRUE]
    ELSE LET m1 == [mapas EXCEPT ![saida] = DictSet(mapas[saida], u,
                                                DictSet(mapas[saida][u], v, a))]
         IN [mapas |-> m1, erro |-> v \notin DOMAIN m1[entrada]]

\* mutation: the incoming map is written as _entrada[u][v]
escrever_aresta_trocada(u, v, a) ==
    IF u \notin DOMAIN mapas[saida]
    THEN [mapas |-> mapas, erro |-> TRUE]
    ELSE LET m1 == [mapas EXCEPT ![saida] = DictSet(mapas[saida], u,
                                                DictSet(mapas[saida][u], v, a))]
         IN IF u \notin DOMAIN m1[entrada]
            THEN [mapas |-> m1, erro |-> TRUE]
            ELSE [mapas |-> [m1 EXCEPT ![entrada] = DictSet(m1[entrada], u,
                                                        DictSet(m1[entrada][u], v, a))],
                  erro |-> FALSE]

\* mutation: an existing entry is kept (setdefault) instead of replaced
escrever_aresta_setdefault(u, v, a) ==
    IF u \notin DOMAIN mapas[saida]
    THEN [mapas |-> mapas, erro |-> TRUE]
    ELSE LET m1 == IF v \in DOMAIN mapas[saida][u] THEN mapas
                   ELSE [mapas EXCEPT ![saida] = DictSet(mapas[saida], u,
                                                DictSet(mapas[saida][u], v, a))]
         IN IF v \notin DOMAIN m1[entrada]
            THEN [mapas |-> m1, erro |-> TRUE]
            ELSE IF u \in DOMAIN m1[entrada][v] THEN [mapas |-> m1, erro |-> FALSE]
            ELSE [mapas |-> [m1 EXCEPT ![entrada] = DictSet(m1[entrada], v,
                                                        DictSet(m1[entrada][v], u, a))],
                  erro |-> FALSE]

\* the two assignments of inserir_aresta, in order; each may raise KeyError
\* and leaves what was written before it
escrever_aresta(u, v, a) ==
    IF u \notin DOMAIN mapas[saida]
    THEN [mapas |-> mapas, erro |-> TRUE]
    ELSE LET m1 == [mapas EXCEPT ![saida] = DictSet(mapas[saida], u,
                                                DictSet(mapas[saida][u], v, a))]
         IN IF v \notin DOMAIN m1[entrada]
            THEN [mapas |-> m1, erro |-> TRUE]
            ELSE [mapas |-> [m1 EXCEPT ![entrada] = DictSet(m1[entrada], v,
                                                        DictSet(m1[entrada][v], u, a))],
                  erro |-> FALSE]

inserir_aresta(u, v, x) ==
    LET a == Cardinality(DOMAIN ars) + 1
        r == escrever_aresta(u, v, a)
    IN
    /\ Cardinality(DOMAIN ars) < MaxArestas
    /\ ars' = DictSet(ars, a, Aresta(u, v, x))
    /\ mapas' = r.mapas
    /\ chamada' = [op |-> "inserir_aresta", u |-> u, v |-> v, x |-> x,
                   ret |-> IF r.erro THEN None ELSE a, erro |-> r.erro]
    /\ UNCHANGED <<direcionado, saida, entrada, verts>>

\* ---- specifications ---------------------------------------------------
InserirVertice == \E x \in Elementos : inserir_vertice(x)

\* inserir_aresta on vertices of the graph
InserirAresta == \E u \in DOMAIN verts, v \in DOMAIN verts, x \in Valores : inserir_aresta(u, v, x)

\* inserir_aresta with at least one vertex that is not of the graph
InserirArestaEstranho ==
    \E u \in (DOMAIN verts) \cup Estranhos, v \in (DOMAIN verts) \cup Estranhos, x \in Valores :
        /\ (u \in Estranhos \/ v \in Estranhos)
        /\ inserir_aresta(u, v, x)

Next == InserirVertice \/ InserirAresta

Spec == Init /\ [][Next]_vars

NextQualquer == InserirVertice \/ InserirAresta \/ InserirArestaEstranho

SpecQualquer == Init /\ [][NextQualquer]_vars

\* ---- properties --------------------------------------------------------
Todos == (DOMAIN verts) \cup Estranhos

\* the last call was a successful inserir_aresta
InseriuAresta == chamada.op = "inserir_aresta" /\ ~chamada.erro

\* C1: for every graph reached by inserir_vertice and inserir_aresta calls on
\* vertices of the graph, self-loops and repeated pairs included,
\* num_arestas() equals the number of elements of arestas().
C1_NumArestasIgualArestas == num_arestas = Cardinality(arestas)

\* C2 (as claimed): in an undirected graph every inserir_aresta(u, v) makes
\* grau(u) and grau(v) each increase by exactly 1.
C2_GrauAumentaSempre ==
    [][\A u \in DOMAIN verts, v \in DOMAIN verts :
        (InseriuAresta' /\ chamada'.u = u /\ chamada'.v = v /\ ~direcionado) =>
            /\ grau(u, TRUE)' = grau(u, TRUE) + 1
            /\ grau(v, TRUE)' = grau(v, TRUE) + 1]_vars

\* C2 (amended): in an undirected graph inserir_aresta(u, v) makes grau(u) and
\* grau(v) each increase by exactly 1 when u and v were not adjacent before
\* the call, and leaves both unchanged when they were (the edge is replaced).
C2_GrauAumentaSeNova ==
    [][\A u \in DOMAIN verts, v \in DOMAIN verts :
        (InseriuAresta' /\ chamada'.u = u /\ chamada'.v = v /\ ~direcionado) =>
            LET d == IF aresta(u, v) = None THEN 1 ELSE 0
            IN /\ grau(u, TRUE)' = grau(u, TRUE) + d
               /\ grau(v, TRUE)' = grau(v, TRUE) + d
               /\ grau(u, FALSE)' = grau(u, FALSE) + d
               /\ grau(v, FALSE)' = grau(v, FALSE) + d]_vars

\* C2 witness: an undirected graph where an edge between two distinct
\* vertices was inserted and then inserted again
C2_Witness ==
    /\ ~direcionado
    /\ InseriuAresta
    /\ chamada.u # chamada.v
    /\ \E e \in DOMAIN ars : e # chamada.ret /\ ars[e] = ars[chamada.ret]
    /\ grau(chamada.u, TRUE) = 1

\* C3 (as claimed): in a directed graph every inserir_aresta(u, v) increases
\* grau(u, saida=True) by 1 and grau(v, saida=False) by 1 and leaves
\* grau(u, saida=False) unchanged.
C3_GrauDirigidoSempre ==
    [][\A u \in DOMAIN verts, v \in DOMAIN verts :
        (InseriuAresta' /\ chamada'.u = u /\ chamada'.v = v /\ direcionado) =>
            /\ grau(u, TRUE)' = grau(u, TRUE) + 1
            /\ grau(v, FALSE)' = grau(v, FALSE) + 1
            /\ grau(u, FALSE)' = grau(u, FALSE)]_vars

\* C3 (amended): in a directed graph inserir_aresta(u, v) increases
\* grau(u, saida=True) and grau(v, saida=False) by exactly 1 when there was no
\* edge from u to v before the call and leaves them unchanged when there was
\* one; grau(u, saida=False) is unchanged unless u = v and the loop is new.
C3_GrauDirigidoSeNova ==
    [][\A u \in DOMAIN verts, v \in DOMAIN verts :
        (InseriuAresta' /\ chamada'.u = u /\ chamada'.v = v /\ direcionado) =>
            LET d == IF aresta(u, v) = None THEN 1 ELSE 0
            IN /\ grau(u, TRUE)' = grau(u, TRUE) + d
               /\ grau(v, FALSE)' = grau(v, FALSE) + d
               /\ grau(u, FALSE)' = grau(u, FALSE) + (IF u = v THEN d ELSE 0)
               /\ (u # v) => grau(v, TRUE)' = grau(v, TRUE)]_vars

\* C3 witness: a directed graph where u -> v (u # v) was inserted twice and
\* u has an incoming edge as well
C3_Witness ==
    /\ direcionado
    /\ InseriuAresta
    /\ chamada.u # chamada.v
    /\ \E e \in DOMAIN ars : e # chamada.ret /\ ars[e] = ars[chamada.ret]
    /\ grau(chamada.u, TRUE) = 1
    /\ grau(chamada.u, FALSE) = 1

\* C4: in an undirected graph, for all vertices u and v of the graph,
\* aresta(u, v) and aresta(v, u) are the very same edge or both None.
C4_ArestaSimetrica ==
    ~direcionado =>
        \A u \in DOMAIN verts, v \in DOMAIN verts :
            /\ ~aresta_KeyError(u, v)
            /\ ~aresta_KeyError(v, u)
            /\ aresta(u, v) = aresta(v, u)

\* C4 witness: an undirected graph where the edge seen from u and v was
\* inserted as (v, u) over an earlier edge inserted as (u, v)
C4_Witness ==
    /\ ~direcionado
    /\ \E u \in DOMAIN verts, v \in DOMAIN verts :
        /\ u # v
        /\ aresta(u, v) # None
        /\ ars[aresta(u, v)].origem = v
        /\ \E e \in DOMAIN ars : e < aresta(u, v) /\ ars[e].origem = u /\ ars[e].destino = v

\* C5: after a second inserir_aresta with the same ordered (origem, destino)
\* pair, aresta(origem, destino) is the second edge and holds its payload, and
\* no earlier edge of that ordered pair appears in arestas() or in the
\* arestas_incidentes of either endpoint, in directed and undirected graphs.
C5_Sobrescreve ==
    InseriuAresta =>
        LET a == chamada.ret
            u == chamada.u
            v == chamada.v
        IN /\ aresta(u, v) = a
           /\ peso(a) = chamada.x
           /\ \A e \in (DOMAIN ars) \ {a} :
                (ars[e].origem = u /\ ars[e].destino = v) =>
                    /\ e \notin arestas
                    /\ \A w \in {u, v}, s \in BOOLEAN : e \notin arestas_incidentes(w, s)

\* C5 witness: the pair was inserted before with another payload, and some
\* other edge was inserted in between
C5_Witness ==
    /\ InseriuAresta
    /\ \E e \in DOMAIN ars :
        /\ e + 1 < chamada.ret
        /\ ars[e].origem = chamada.u
        /\ ars[e].destino = chamada.v
        /\ ars[e].peso # chamada.x
        /\ <<ars[e + 1].origem, ars[e + 1].destino>> # <<chamada.u, chamada.v>>

\* C6: in a directed graph the two maps are consistent: _saida[u][v] holds
\* edge e iff _entrada[v][u] holds the same edge e, so the out-degrees and the
\* in-degrees have the same sum.
C6_MapasConsistentes ==
    direcionado =>
        /\ \A u \in DOMAIN verts, v \in DOMAIN verts :
            /\ (v \in DOMAIN mapas[saida][u]) <=> (u \in DOMAIN mapas[entrada][v])
            /\ (v \in DOMAIN mapas[saida][u]) => mapas[saida][u][v] = mapas[entrada][v][u]
        /\ Soma([w \in DOMAIN verts |-> grau(w, TRUE)], DOMAIN verts)
             = Soma([w \in DOMAIN verts |-> grau(w, FALSE)], DOMAIN verts)

\* C6 witness: a directed graph with an edge u -> v and none v -> u
C6_Witness ==
    /\ direcionado
    /\ \E u \in DOMAIN verts, v \in DOMAIN verts :
        /\ u # v
        /\ aresta(u, v) # None
        /\ aresta(v, u) = None
        /\ grau(u, TRUE) = 2

\* C7 (as claimed): grau(v), arestas_incidentes(v) and aresta(u, v) raise
\* KeyError whenever a vertex argument is not of the graph (u or v for
\* aresta), and aresta(u, v) on two vertices of the graph never raises.
C7_ErroComQualquerEstranho ==
    /\ \A v \in Todos, s \in BOOLEAN :
        v \notin DOMAIN verts => grau_KeyError(v, s) /\ arestas_incidentes_KeyError(v, s)
    /\ \A u \in Todos, v \in Todos :
        /\ (u \notin DOMAIN verts \/ v \notin DOMAIN verts) => aresta_KeyError(u, v)
        /\ (u \in DOMAIN verts /\ v \in DOMAIN verts) => ~aresta_KeyError(u, v)

\* C7 (amended): grau(v) and the iteration of arestas_incidentes(v) raise
\* KeyError whenever v is not of the graph; aresta(u, v) raises KeyError
\* exactly when u is not of the graph; with u of the graph and no edge stored
\* from u to v (v of the graph or not) it returns None and no error.
C7_ErroSoComOrigemEstranha ==
    /\ \A v \in Todos, s \in BOOLEAN :
        v \notin DOMAIN verts => grau_KeyError(v, s) /\ arestas_incidentes_KeyError(v, s)
    /\ \A u \in Todos, v \in Todos :
        /\ aresta_KeyError(u, v) <=> u \notin DOMAIN verts
        /\ (u \in DOMAIN verts /\ v \notin DOMAIN mapas[saida][u]) => aresta(u, v) = None

\* C7 witness: a graph with two vertices that are not adjacent and one that is
C7_Witness ==
    \E u \in DOMAIN verts, v \in DOMAIN verts, w \in DOMAIN verts :
        /\ aresta(u, v) = None
        /\ aresta(u, w) # None
        /\ \E f \in Estranhos : aresta(u, f) = None

\* C8: e_direcionado() is False for a graph built with no argument or
\* direcionado=False, True for one built with direcionado=True, and never
\* changes under inserir_vertice and inserir_aresta.
C8_DirecionadoEstavel == e_direcionado = direcionado

\* C8 witness: a directed graph after insertions of vertices and edges
C8_Witness ==
    /\ direcionado
    /\ e_direcionado
    /\ Cardinality(DOMAIN verts) >= 2
    /\ InseriuAresta

\* C9: every vertex of the graph has an entry in both maps, the two maps have
\* the same keys, every neighbour key is a vertex of the graph, and grau(v,
\* True) and grau(v, False) never fail for a vertex returned by inserir_vertice.
C9_EntradasCompletas ==
    /\ DOMAIN mapas[saida] = DOMAIN verts
    /\ DOMAIN mapas[entrada] = DOMAIN verts
    /\ \A w \in DOMAIN verts :
        /\ DOMAIN mapas[saida][w] \subseteq DOMAIN verts
        /\ DOMAIN mapas[entrada][w] \subseteq DOMAIN verts
        /\ ~grau_KeyError(w, TRUE)
        /\ ~grau_KeyError(w, FALSE)

\* C9 witness: a directed graph with a vertex without edges, inserted after an
\* edge was
C9_Witness ==
    /\ direcionado
    /\ chamada.op = "inserir_vertice"
    /\ ars # DictVazio
    /\ grau(chamada.ret, TRUE) = 0
    /\ grau(chamada.ret, FALSE) = 0

\* C10: an inserir_aresta(u, v) call that fails with KeyError leaves the graph
\* unchanged: num_vertices(), num_arestas(), arestas() and the degree of every
\* vertex are what they were before the call.
C10_FalhaNaoAltera ==
    [][chamada'.erro =>
        /\ num_vertices' = num_vertices
        /\ num_arestas' = num_arestas
        /\ arestas' = arestas
        /\ \A w \in DOMAIN verts, s \in BOOLEAN : grau(w, s)' = grau(w, s)]_vars

====
